---- MODULE Spec2Model ----
(***************************************************************************)
(* Model of server/utils/excel_parser.py: anchor-row detection, two-row    *)
(* header merging, exact column mapping, value coercion and record         *)
(* assembly of parse_excel.                                                *)
(*                                                                         *)
(* Text is a sequence of one-character strings, so that lowercasing,       *)
(* trimming, whitespace collapsing, substring tests and character          *)
(* filtering are computed as the Python code computes them.                *)
(* A blank cell is the pandas NaN; read_excel never yields an empty string *)
(* (empty strings are NA values), so NaN is a value apart from every text. *)
(* An Optional result is a sequence of length at most one: None is <<>>,   *)
(* a present value v is <<v>>.                                             *)
(***************************************************************************)
EXTENDS Integers, Sequences, FiniteSets, TLC

\* ---------------------------------------------------------------------------
\* Bounds of the model
\* ---------------------------------------------------------------------------
\* largest number of blank rows on top of a grid for anchor detection
MaxPad == 16
\* largest number of rows of free cells under the blank rows
MaxHead == 2
\* number of columns of a grid for anchor detection
AnchorWidth == 2
\* largest number of data rows under the header rows
MaxData == 3
\* largest length of a text handed to clean_numeric
MaxNumLen == 4
\* largest number of rows above the candidate header row of a grid for merging
MaxAbove == 1
\* largest number of data rows of a grid for merging
MaxMergeData == 1
\* largest number of data rows of a grid for the stages of a parse
MaxLiveData == 2

\* ---------------------------------------------------------------------------
\* The build the parser runs on
\* ---------------------------------------------------------------------------
\* whether strftime('%Y') of this build pads a year to four digits
VARIABLE year_padded

\* ---------------------------------------------------------------------------
\* Values
\* ---------------------------------------------------------------------------
NaN == <<"NaN">>

isna(v) == v = NaN

notna(v) == v # NaN

None == <<>>

Some(v) == <<v>>

\* ---------------------------------------------------------------------------
\* str.lower, str.strip, str.replace, re.sub(r'\s+', ' ', .)
\* ---------------------------------------------------------------------------
UpperCase == <<"A","B","C","D","E","F","G","H","I","J","K","L","M","N","O","P","Q","R","S","T","U","V","W","X","Y","Z","Á","É","Í","Ó","Ú","Ñ">>

LowerCase == <<"a","b","c","d","e","f","g","h","i","j","k","l","m","n","o","p","q","r","s","t","u","v","w","x","y","z","á","é","í","ó","ú","ñ">>

LowerChar(c) ==
    IF \E i \in 1..Len(UpperCase) : UpperCase[i] = c
    THEN LowerCase[CHOOSE i \in 1..Len(UpperCase) : UpperCase[i] = c]
    ELSE c

lower(s) == [i \in 1..Len(s) |-> LowerChar(s[i])]

IsSpace(c) == c \in {" ", "\n", "\t", "\r"}

RECURSIVE lstrip(_)
lstrip(s) ==
    IF s # <<>> /\ IsSpace(Head(s)) THEN lstrip(Tail(s)) ELSE s

RECURSIVE rstrip(_)
rstrip(s) ==
    IF s # <<>> /\ IsSpace(s[Len(s)]) THEN rstrip(SubSeq(s, 1, Len(s) - 1)) ELSE s

strip(s) == rstrip(lstrip(s))

replace_newline(s) == [i \in 1..Len(s) |-> IF s[i] = "\n" THEN " " ELSE s[i]]

\* re.sub(r'\s+', ' ', s): every maximal run of whitespace becomes one space
RECURSIVE collapse_spaces(_)
collapse_spaces(s) ==
    IF s = <<>> THEN <<>>
    ELSE IF IsSpace(Head(s))
         THEN <<" ">> \o collapse_spaces(lstrip(s))
         ELSE <<Head(s)>> \o collapse_spaces(Tail(s))

\* Python's `sub in s`
Contains(s, sub) ==
    \E text \in {s}, part \in {sub} :
        \E i \in 0..(Len(text) - Len(part)) :
            SubSeq(text, i + 1, i + Len(part)) = part

\* each step of the function is computed once, as the assignments to `text` are
normalize_header(text) ==
    IF isna(text) THEN <<>>
    ELSE CHOOSE normalized \in
             { collapse_spaces(replaced) :
                   replaced \in { replace_newline(stripped) :
                       stripped \in { strip(lowered) :
                           lowered \in { lower(text) } } } } : TRUE

\* ---------------------------------------------------------------------------
\* EXACT_COLUMN_MAPPINGS: normalized header -> canonical field
\* ---------------------------------------------------------------------------
EXACT_COLUMN_MAPPINGS ==
    {  << <<"p","r","e","v","i","o">>, "previo" >>,
       << <<"r","a","n","k","i","n","g">>, "ranking" >>,
       << <<"r","e","n","k","i","n","g"," ","g","e","n","e","r","a","l">>, "ranking" >>,
       << <<"i","d"," ","p","o","w","e","r"," ","s","t","e","e","r","i","n","g">>, "legacyId" >>,
       << <<"c","a","r","d"," ","i","d"," ","d","e","v","o","p","s">>, "cardIdDevops" >>,
       << <<"i","n","i","c","i","a","t","i","v","a">>, "projectName" >>,
       << <<"d","e","s","c","r","i","p","c","i","ó","n">>, "problemStatement" >>,
       << <<"d","e","s","c","r","i","p","c","i","o","n">>, "problemStatement" >>,
       << <<"v","a","l","o","r"," ","/"," ","d","i","f","e","r","e","n","c","i","a","d","o","r">>, "valorDiferenciador" >>,
       << <<"f","e","c","h","a"," ","d","e"," ","r","e","g","i","s","t","r","o">>, "registrationDate" >>,
       << <<"f","e","c","h","a"," ","i","n","i","c","i","o">>, "startDate" >>,
       << <<"f","e","c","h","a"," ","d","e"," ","t","é","r","m","i","n","o"," ","/"," ","r","e","a","l"," ","o"," ","e","s","t","i","m","a","d","a">>, "endDateEstimated" >>,
       << <<"f","e","c","h","a"," ","d","e"," ","t","e","r","m","i","n","o"," ","/"," ","r","e","a","l"," ","o"," ","e","s","t","i","m","a","d","a">>, "endDateEstimated" >>,
       << <<"t","."," ","d","e"," ","c","i","c","l","o"," ","e","n"," ","d","í","a","s">>, "tiempoCicloDias" >>,
       << <<"t","."," ","d","e"," ","c","i","c","l","o"," ","e","n"," ","d","i","a","s">>, "tiempoCicloDias" >>,
       << <<"t","i","e","m","p","o"," ","d","e"," ","c","i","c","l","o"," ","e","n"," ","d","í","a","s">>, "tiempoCicloDias" >>,
       << <<"t","i","e","m","p","o"," ","d","e"," ","c","i","c","l","o"," ","e","n"," ","d","i","a","s">>, "tiempoCicloDias" >>,
       << <<"e","s","t","a","t","u","s"," ","a","l"," ","d","í","a">>, "estatusAlDia" >>,
       << <<"e","s","t","a","t","u","s"," ","a","l"," ","d","i","a">>, "estatusAlDia" >>,
       << <<"p","r","o","c","e","s","o"," ","d","e"," ","n","e","g","o","c","i","o">>, "departmentName" >>,
       << <<"i","n","g","r","e","s","a","d","a"," ","e","n"," ","p","b","o","t">>, "ingresadaEnPbot" >>,
       << <<"g","r","u","p","o"," ","t","é","c","n","i","c","o"," ","a","s","i","g","n","a","d","o">>, "grupoTecnicoAsignado" >>,
       << <<"g","r","u","p","o"," ","t","e","c","n","i","c","o"," ","a","s","i","g","n","a","d","o">>, "grupoTecnicoAsignado" >>,
       << <<"t","i","p","o"," ","d","e"," ","i","n","i","c","i","a","t","i","v","a">>, "status" >>,
       << <<"c","i","t","i","z","e","n"," ","d","e","v","e","l","o","p","e","r"," ","/"," ","c","r","e","a","t","o","r">>, "citizenDeveloper" >>,
       << <<"d","u","e","ñ","o"," ","d","e","l"," ","p","r","o","c","e","s","o">>, "sponsor" >>,
       << <<"d","u","e","n","o"," ","d","e","l"," ","p","r","o","c","e","s","o">>, "sponsor" >>,
       << <<"l","í","d","e","r"," ","o"," ","s","o","l","i","c","i","t","a","n","t","e">>, "leader" >>,
       << <<"l","i","d","e","r"," ","o"," ","s","o","l","i","c","i","t","a","n","t","e">>, "leader" >>,
       << <<"d","t","c"," ","l","e","a","d">>, "dtcLead" >>,
       << <<"b","l","a","c","k"," ","b","e","l","t"," ","l","e","a","d">>, "blackBeltLead" >>,
       << <<"d","i","r","e","c","c","i","ó","n"," ","d","e"," ","n","e","g","o","c","i","o"," ","d","e","l"," ","u","s","u","a","r","i","o">>, "direccionNegocioUsuario" >>,
       << <<"d","i","r","e","c","c","i","o","n"," ","d","e"," ","n","e","g","o","c","i","o"," ","d","e","l"," ","u","s","u","a","r","i","o">>, "direccionNegocioUsuario" >>,
       << <<"¿","i","m","p","a","c","t","a"," ","a"," ","g","a","s","e","s"," ","e","n","v","a","s","a","d","o","s"," ","?">>, "impactaGasesEnvasados" >>,
       << <<"¿","i","m","p","a","c","t","a"," ","a"," ","g","a","s","e","s"," ","e","n","v","a","s","a","d","o","s","?">>, "impactaGasesEnvasados" >>,
       << <<"b","u","s","i","n","e","s","s"," ","p","r","o","c","e","s","s"," ","a","n","a","l","y","s","t">>, "bpAnalyst" >>,
       << <<"á","r","e","a"," ","d","e"," ","p","r","o","d","u","c","t","i","v","i","d","a","d">>, "areaProductividad" >>,
       << <<"a","r","e","a"," ","d","e"," ","p","r","o","d","u","c","t","i","v","i","d","a","d">>, "areaProductividad" >>,
       << <<"¿","e","n"," ","q","u","e"," ","n","i","v","e","l"," ","e","s"," ","d","e","t","o","n","a","d","a"," ","l","a"," ","n","e","c","e","s","i","d","a","d","?">>, "scoringNivelDemanda" >>,
       << <<"¿","e","n"," ","q","u","é"," ","n","i","v","e","l"," ","e","s"," ","d","e","t","o","n","a","d","a"," ","l","a"," ","n","e","c","e","s","i","d","a","d","?">>, "scoringNivelDemanda" >>,
       << <<"¿","d","e"," ","q","u","é"," ","n","i","v","e","l"," ","e","s"," ","d","e","m","a","n","d","a"," ","l","a"," ","n","e","c","e","s","i","d","a","d","?">>, "scoringNivelDemanda" >>,
       << <<"¿","d","e"," ","q","u","e"," ","n","i","v","e","l"," ","e","s"," ","d","e","m","a","n","d","a"," ","l","a"," ","n","e","c","e","s","i","d","a","d","?">>, "scoringNivelDemanda" >>,
       << <<"¿","t","i","e","n","e"," ","u","n"," ","s","p","o","n","s","o","r"," ","o"," ","d","u","e","ñ","o","?">>, "scoringTieneSponsor" >>,
       << <<"¿","t","i","e","n","e"," ","u","n"," ","s","p","o","n","s","o","r"," ","o"," ","d","u","e","n","o","?">>, "scoringTieneSponsor" >>,
       << <<"¿","a"," ","c","u","á","n","t","a","s"," ","p","e","r","s","o","n","a","s"," ","a","f","e","c","t","a","?">>, "scoringPersonasAfecta" >>,
       << <<"¿","a"," ","c","u","a","n","t","a","s"," ","p","e","r","s","o","n","a","s"," ","a","f","e","c","t","a","?">>, "scoringPersonasAfecta" >>,
       << <<"¿","a"," ","c","u","á","n","t","a","s"," ","p","e","r","s","o","n","a","s"," ","/","c","l","i","e","n","t","e","s"," ","i","m","p","a","c","t","a","?">>, "scoringPersonasAfecta" >>,
       << <<"¿","a"," ","c","u","a","n","t","a","s"," ","p","e","r","s","o","n","a","s"," ","/","c","l","i","e","n","t","e","s"," ","i","m","p","a","c","t","a","?">>, "scoringPersonasAfecta" >>,
       << <<"a","l","i","n","e","a","d","o"," ","a"," ","o","b","j","e","t","i","v","o","s"," ","e","s","t","r","a","t","é","g",".">>, "strategicFit" >>,
       << <<"a","l","i","n","e","a","d","o"," ","a"," ","o","b","j","e","t","i","v","o","s"," ","e","s","t","r","a","t","e","g",".">>, "strategicFit" >>,
       << <<"a","l","i","n","e","a","d","o"," ","a"," ","o","b","j","e","t","i","v","o","s"," ","/"," ","e","s","t","r","a","t","e","g","i","a">>, "strategicFit" >>,
       << <<"¿","c","u","á","l"," ","e","s"," ","e","l"," ","i","m","p","a","c","t","o"," ","e","n"," ","b","e","n","e","f","i","c","i","o","s"," ","d","u","r","o","s","?">>, "financialImpact" >>,
       << <<"¿","c","u","a","l"," ","e","s"," ","e","l"," ","i","m","p","a","c","t","o"," ","e","n"," ","b","e","n","e","f","i","c","i","o","s"," ","d","u","r","o","s","?">>, "financialImpact" >>,
       << <<"¿","c","u","á","l"," ","e","s"," ","e","l"," ","i","m","p","a","c","t","o"," ","e","n"," ","b","e","n","e","f","i","c","i","o","s"," ","d","u","r","o","s"," ","a","n","u","a","l","e","s","?">>, "financialImpact" >>,
       << <<"¿","c","u","a","l"," ","e","s"," ","e","l"," ","i","m","p","a","c","t","o"," ","e","n"," ","b","e","n","e","f","i","c","i","o","s"," ","d","u","r","o","s"," ","a","n","u","a","l","e","s","?">>, "financialImpact" >>,
       << <<"¿","s","i","m","p","l","i","f","i","c","a"," ","p","r","o","c","e","s","o","s"," ","o"," ","m","e","j","o","r","a"," ","e","l"," ","c","o","n","t","r","o","l","?">>, "scoringSimplificaProcesos" >>,
       << <<"¿","e","s"," ","r","e","p","l","i","c","a","b","l","e","?">>, "scoringEsReplicable" >>,
       << <<"¿","e","s"," ","p","r","o","y","e","c","t","o"," ","e","s","t","r","a","t","é","g","i","c","o","?">>, "scoringEsEstrategico" >>,
       << <<"¿","e","s"," ","p","r","o","y","e","c","t","o"," ","e","s","t","r","a","t","e","g","i","c","o","?">>, "scoringEsEstrategico" >>,
       << <<"¿","r","e","q","u","i","e","r","e"," ","r","e","c","u","r","s","o","s"," ","e","x","t","e","r","n","o","s"," ","p","a","r","a"," ","e","l"," ","d","e","s","a","r","r","o","l","l","o","?"," ","c","a","n","t","i","d","a","d"," ","d","e"," ","p","e","r","s","o","n","a","s">>, "scoringRecursosExternos" >>,
       << <<"¿","r","e","q","u","i","e","r","e"," ","r","e","c","u","r","s","o","s"," ","e","x","t","e","r","n","o","s"," ","p","a","r","a"," ","e","l"," ","d","e","s","a","r","r","o","l","l","o","?">>, "scoringRecursosExternos" >>,
       << <<"r","e","q","u","i","e","r","e"," ","c","a","p","e","x","/","i","n","v","e","r","s","i","ó","n","?">>, "capexTier" >>,
       << <<"r","e","q","u","i","e","r","e"," ","c","a","p","e","x","/","i","n","v","e","r","s","i","o","n","?">>, "capexTier" >>,
       << <<"¿","r","e","q","u","i","e","r","e"," ","c","a","p","e","x","/","i","n","v","e","r","s","i","ó","n","?">>, "capexTier" >>,
       << <<"¿","r","e","q","u","i","e","r","e"," ","c","a","p","e","x","/","i","n","v","e","r","s","i","o","n","?">>, "capexTier" >>,
       << <<"¿","c","u","á","l"," ","e","s"," ","e","l"," ","t","i","e","m","p","o"," ","d","e"," ","d","e","s","a","r","r","o","l","l","o","?">>, "scoringTiempoDesarrollo" >>,
       << <<"¿","c","u","a","l"," ","e","s"," ","e","l"," ","t","i","e","m","p","o"," ","d","e"," ","d","e","s","a","r","r","o","l","l","o","?">>, "scoringTiempoDesarrollo" >>,
       << <<"¿","c","u","á","l"," ","e","s"," ","l","a"," ","c","a","l","i","d","a","d"," ","d","e"," ","l","a"," ","i","n","f","o","r","m","a","c","i","ó","n","?">>, "scoringCalidadInformacion" >>,
       << <<"¿","c","u","a","l"," ","e","s"," ","l","a"," ","c","a","l","i","d","a","d"," ","d","e"," ","l","a"," ","i","n","f","o","r","m","a","c","i","o","n","?">>, "scoringCalidadInformacion" >>,
       << <<"¿","c","u","á","l"," ","e","s"," ","l","a"," ","c","a","l","i","d","a","d"," ","d","e"," ","d","a","t","o","s"," ","y"," ","d","i","s","p","o","n","i","b","i","l","i","d","a","d"," ","d","e"," ","l","a"," ","i","n","f","o","r","m","a","c","i","ó","n","?">>, "scoringCalidadInformacion" >>,
       << <<"¿","c","u","a","l"," ","e","s"," ","l","a"," ","c","a","l","i","d","a","d"," ","d","e"," ","d","a","t","o","s"," ","y"," ","d","i","s","p","o","n","i","b","i","l","i","d","a","d"," ","d","e"," ","l","a"," ","i","n","f","o","r","m","a","c","i","o","n","?">>, "scoringCalidadInformacion" >>,
       << <<"¿","c","u","á","l"," ","e","s"," ","e","l"," ","t","i","e","m","p","o"," ","p","a","r","a"," ","c","o","n","s","e","g","u","i","r"," ","l","a"," ","i","n","f","o","r","m","a","c","i","ó","n","?">>, "scoringTiempoConseguirInfo" >>,
       << <<"¿","c","u","a","l"," ","e","s"," ","e","l"," ","t","i","e","m","p","o"," ","p","a","r","a"," ","c","o","n","s","e","g","u","i","r"," ","l","a"," ","i","n","f","o","r","m","a","c","i","o","n","?">>, "scoringTiempoConseguirInfo" >>,
       << <<"¿","c","u","á","l"," ","e","s"," ","e","l"," ","t","i","e","m","p","o"," ","p","a","r","a"," ","i","m","p","l","e","m","e","n","t","a","r"," ","l","a"," ","s","o","l","u","c","i","ó","n","?">>, "scoringTiempoImplementar" >>,
       << <<"¿","c","u","a","l"," ","e","s"," ","e","l"," ","t","i","e","m","p","o"," ","p","a","r","a"," ","i","m","p","l","e","m","e","n","t","a","r"," ","l","a"," ","s","o","l","u","c","i","o","n","?">>, "scoringTiempoImplementar" >>,
       << <<"¿","q","u","é"," ","t","a","n"," ","c","o","m","p","l","e","j","a"," ","e","s"," ","l","a"," ","i","m","p","l","e","m","e","n","t","a","c","i","ó","n"," ","t","é","c","n","i","c","a","?">>, "scoringComplejidadTecnica" >>,
       << <<"¿","q","u","e"," ","t","a","n"," ","c","o","m","p","l","e","j","a"," ","e","s"," ","l","a"," ","i","m","p","l","e","m","e","n","t","a","c","i","o","n"," ","t","e","c","n","i","c","a","?">>, "scoringComplejidadTecnica" >>,
       << <<"¿","q","u","é"," ","t","a","n"," ","c","o","m","p","l","e","j","a"," ","e","s"," ","l","a"," ","i","n","t","e","g","r","a","c","i","ó","n"," ","t","é","c","n","i","c","a"," ","d","e"," ","l","a","(","s",")"," ","s","o","l","u","c","i","o","n"," ","d","i","g","i","t","a","l","?">>, "scoringComplejidadTecnica" >>,
       << <<"¿","q","u","e"," ","t","a","n"," ","c","o","m","p","l","e","j","a"," ","e","s"," ","l","a"," ","i","n","t","e","g","r","a","c","i","o","n"," ","t","e","c","n","i","c","a"," ","d","e"," ","l","a","(","s",")"," ","s","o","l","u","c","i","o","n"," ","d","i","g","i","t","a","l","?">>, "scoringComplejidadTecnica" >>,
       << <<"c","o","m","p","l","e","j","i","d","a","d"," ","d","e","l"," ","c","a","m","b","i","o"," ","a"," ","p","e","r","s","o","n","a","s">>, "scoringComplejidadCambio" >>,
       << <<"¿","q","u","é"," ","t","a","n"," ","c","o","m","p","l","e","j","a"," ","e","s"," ","l","a"," ","i","m","p","l","e","m","e","n","t","a","c","i","o","n","?"," ","c","o","m","p","l","e","j","i","d","a","d"," ","d","e","l"," ","n","u","e","v","o"," ","p","r","o","c","e","s","o"," ","o"," ","c","a","n","t","i","d","a","d"," ","d","e"," ","r","e","c","u","r","s","o","s"," ","p","a","r","a"," ","i","m","p","l","e","m","e","n","t","a","r">>, "scoringComplejidadCambio" >>,
       << <<"¿","q","u","e"," ","t","a","n"," ","c","o","m","p","l","e","j","a"," ","e","s"," ","l","a"," ","i","m","p","l","e","m","e","n","t","a","c","i","o","n","?"," ","c","o","m","p","l","e","j","i","d","a","d"," ","d","e","l"," ","n","u","e","v","o"," ","p","r","o","c","e","s","o"," ","o"," ","c","a","n","t","i","d","a","d"," ","d","e"," ","r","e","c","u","r","s","o","s"," ","p","a","r","a"," ","i","m","p","l","e","m","e","n","t","a","r">>, "scoringComplejidadCambio" >>,
       << <<"v","a","l","o","r">>, "totalValor" >>,
       << <<"t","o","t","a","l"," ","v","a","l","o","r">>, "totalValor" >>,
       << <<"e","s","f","u","e","r","z","o">>, "totalEsfuerzo" >>,
       << <<"t","o","t","a","l"," ","e","s","f","u","e","r","z","o">>, "totalEsfuerzo" >>,
       << <<"p","u","n","t","a","j","e"," ","t","o","t","a","l">>, "puntajeTotal" >>,
       << <<"e","s","t","a","t","u","s"," ","y"," ","s","i","g","u","i","e","n","t","e","s"," ","p","a","s","o","s">>, "statusText" >>,
       << <<"a","c","c","i","o","n","e","s"," ","a"," ","e","j","e","c","u","t","a","r"," ","p","a","r","a"," ","a","c","e","l","e","r","a","r">>, "accionesAcelerar" >>,
       << <<"b","u","s","i","n","e","s","s"," ","i","m","p","a","c","t"," ","u","s","d","$"," ","g","r","o","w","t","h"," ","/"," ","y","e","a","r"," ","e","s","t","i","m","a","t","e","d">>, "businessImpactGrowth" >>,
       << <<"b","u","s","i","n","e","s","s"," ","i","m","p","a","c","t"," ","u","s","d","$"," ","g","r","o","w","t","h"," ","/"," ","y","e","a","r">>, "businessImpactGrowth" >>,
       << <<"b","u","s","i","n","e","s","s"," ","i","m","p","a","c","t"," ","u","s","d","$"," ","c","o","s","t","o","s">>, "businessImpactCostos" >>,
       << <<"b","u","s","i","n","e","s","s"," ","i","m","p","a","c","t"," ","(","t","i","m","e",","," ","c","o","n","t","r","o","l",","," ","c","o","m","p","l","i","a","n","c","e",")">>, "businessImpactOther" >>,
       << <<"f","a","s","e",":"," ","n","u","e","v","o"," ","/"," ","a","n","a","l","i","s","i","s"," ","/"," ","d","e","s","a","r","r","o","l","l","o"," ","/"," ","p","r","u","e","b","a","s","/"," ","i","m","p","l","e","m","e","n","t","a","d","o"," ","/"," ","t","e","r","m","i","n","a","d","o">>, "projectPhase" >> }

NUMERIC_FIELDS ==
    { "ranking", "totalEsfuerzo", "puntajeTotal", "totalValor", "tiempoCicloDias",
      "previo", "scoringNivelDemanda", "scoringTieneSponsor", "scoringPersonasAfecta",
      "scoringEsReplicable", "scoringEsEstrategico", "scoringTiempoDesarrollo",
      "scoringCalidadInformacion", "scoringTiempoConseguirInfo", "scoringComplejidadTecnica",
      "scoringComplejidadCambio", "businessImpactGrowth", "businessImpactCostos",
      "scoringSimplificaProcesos", "scoringRecursosExternos", "scoringTiempoImplementar",
      "strategicFit", "financialImpact", "capexTier" }

DATE_FIELDS == { "registrationDate", "startDate", "endDateEstimated" }

\* variant that falls back to a key contained in the header
map_column_name_substring(col_name) ==
    LET lookup(normalized) ==
            IF normalized = <<>> THEN None
            ELSE IF \E p \in EXACT_COLUMN_MAPPINGS : p[1] = normalized
                 THEN Some((CHOOSE p \in EXACT_COLUMN_MAPPINGS : p[1] = normalized)[2])
                 ELSE IF \E p \in EXACT_COLUMN_MAPPINGS : Contains(normalized, p[1])
                      THEN Some((CHOOSE p \in EXACT_COLUMN_MAPPINGS : Contains(normalized, p[1]))[2])
                      ELSE None
    IN  CHOOSE field \in { lookup(normalized) :
                               normalized \in {normalize_header(col_name)} } : TRUE

\* map_column_name: exact lookup of the normalized header, None when absent
map_column_name(col_name) ==
    LET lookup(normalized) ==
            IF normalized = <<>> THEN None
            ELSE IF \E p \in EXACT_COLUMN_MAPPINGS : p[1] = normalized
                 THEN Some((CHOOSE p \in EXACT_COLUMN_MAPPINGS : p[1] = normalized)[2])
                 ELSE None
    IN  CHOOSE field \in { lookup(normalized) :
                               normalized \in {normalize_header(col_name)} } : TRUE

\* ---------------------------------------------------------------------------
\* Value coercion
\* ---------------------------------------------------------------------------
Digits == <<"0","1","2","3","4","5","6","7","8","9">>

IsDigit(c) == \E i \in 1..10 : Digits[i] = c

DigitVal(c) == (CHOOSE i \in 1..10 : Digits[i] = c) - 1

\* re.sub(r'[^\d.\-]', '', text)
RECURSIVE keep_numeric_chars(_)
keep_numeric_chars(s) ==
    IF s = <<>> THEN <<>>
    ELSE IF IsDigit(Head(s)) \/ Head(s) \in {".", "-"}
         THEN <<Head(s)>> \o keep_numeric_chars(Tail(s))
         ELSE keep_numeric_chars(Tail(s))

RECURSIVE CountChar(_, _)
CountChar(s, c) ==
    IF s = <<>> THEN 0
    ELSE (IF Head(s) = c THEN 1 ELSE 0) + CountChar(Tail(s), c)

RECURSIVE DigitsValue(_, _)
DigitsValue(s, acc) ==
    IF s = <<>> THEN acc
    ELSE IF IsDigit(Head(s)) THEN DigitsValue(Tail(s), 10 * acc + DigitVal(Head(s)))
         ELSE DigitsValue(Tail(s), acc)

RECURSIVE Index(_, _)
Index(s, c) ==
    IF s = <<>> THEN 0
    ELSE IF Head(s) = c THEN 1
         ELSE LET r == Index(Tail(s), c) IN IF r = 0 THEN 0 ELSE r + 1

\* a str value
StrVal(text) == [kind |-> "str", text |-> text]

\* a float value: the decimal m * 10^(-e), with no trailing zero in the fraction
RECURSIVE Float(_, _)
Float(m, e) ==
    IF m = 0 THEN [kind |-> "float", m |-> 0, e |-> 0]
    ELSE IF e > 0 /\ m % 10 = 0 THEN Float(m \div 10, e - 1)
         ELSE [kind |-> "float", m |-> m, e |-> e]

\* float(cleaned) for a text of digits, '.' and '-': None stands for ValueError
float(cleaned) ==
    LET neg  == cleaned # <<>> /\ Head(cleaned) = "-"
        body == IF neg THEN Tail(cleaned) ELSE cleaned
        dot  == Index(body, ".")
        frac == IF dot = 0 THEN 0 ELSE Len(body) - dot
        mag  == DigitsValue(body, 0)
    IN  IF CountChar(body, "-") = 0 /\ CountChar(body, ".") <= 1
           /\ \E i \in 1..Len(body) : IsDigit(body[i])
        THEN Some(Float(IF neg THEN 0 - mag ELSE mag, frac))
        ELSE None

\* variant that answers zero when float() fails
clean_numeric_zero(value) ==
    IF isna(value) THEN None
    ELSE LET cleaned == keep_numeric_chars(value)
         IN  IF cleaned = <<>> \/ cleaned \in { <<".">>, <<"-">>, <<"-", ".">> }
             THEN None
             ELSE IF float(cleaned) = None THEN Some(Float(0, 0)) ELSE float(cleaned)

clean_numeric(value) ==
    IF isna(value) THEN None
    ELSE LET cleaned == keep_numeric_chars(value)
         IN  IF cleaned = <<>> \/ cleaned \in { <<".">>, <<"-">>, <<"-", ".">> }
             THEN None
             ELSE float(cleaned)

\* --- dates -----------------------------------------------------------------
RECURSIVE Split(_, _)
Split(s, sep) ==
    LET i == Index(s, sep)
    IN  IF i = 0 THEN <<s>>
        ELSE <<SubSeq(s, 1, i - 1)>> \o Split(SubSeq(s, i + 1, Len(s)), sep)

AllDigits(s) == \A i \in 1..Len(s) : IsDigit(s[i])

\* strptime directive %Y: exactly four digits
MatchY(s) == Len(s) = 4 /\ AllDigits(s)

\* strptime directive %m: 1[0-2] | 0[1-9] | [1-9]
MatchM(s) ==
    /\ Len(s) \in {1, 2}
    /\ AllDigits(s)
    /\ DigitsValue(s, 0) \in 1..12

\* strptime directive %d: 3[01] | [12]\d | 0[1-9] | [1-9] | ' '[1-9]
MatchD(s) ==
    \/ Len(s) \in {1, 2} /\ AllDigits(s) /\ DigitsValue(s, 0) \in 1..31
    \/ Len(s) = 2 /\ s[1] = " " /\ IsDigit(s[2]) /\ s[2] # "0"

IsLeap(y) == y % 4 = 0 /\ (y % 100 # 0 \/ y % 400 = 0)

DaysInMonth(y, m) ==
    IF m = 2 THEN (IF IsLeap(y) THEN 29 ELSE 28)
    ELSE IF m \in {4, 6, 9, 11} THEN 30 ELSE 31

RECURSIVE IntToText(_)
IntToText(n) ==
    IF n < 10 THEN <<Digits[n + 1]>>
    ELSE IntToText(n \div 10) \o <<Digits[(n % 10) + 1]>>

ZeroPad(n, width) ==
    [i \in 1..width |-> Digits[((n \div (10 ^ (width - i))) % 10) + 1]]

\* datetime(y, m, d).strftime('%Y-%m-%d'): the C library formats %Y, and
\* glibc writes a year below 1000 without leading zeros ('999-01-01' on
\* CPython 3.11 with glibc 2.36) where other builds write four digits
strftime_iso(y, m, d) ==
    (IF year_padded THEN ZeroPad(y, 4) ELSE IntToText(y))
        \o <<"-">> \o ZeroPad(m, 2) \o <<"-">> \o ZeroPad(d, 2)

\* datetime.strptime(text, fmt).strftime('%Y-%m-%d') for a format of three
\* directives joined by one separator; None stands for ValueError
strptime(text, order, sep) ==
    LET parts == Split(text, sep)
        ys == parts[Index(order, "Y")]
        ms == parts[Index(order, "m")]
        ds == parts[Index(order, "d")]
        y  == DigitsValue(ys, 0)
        m  == DigitsValue(ms, 0)
        d  == DigitsValue(ds, 0)
    IN  IF Len(parts) = 3 /\ MatchY(ys) /\ MatchM(ms) /\ MatchD(ds)
           /\ y >= 1 /\ d <= DaysInMonth(y, m)
        THEN Some(strftime_iso(y, m, d))
        ELSE None

date_formats ==
    << [order |-> <<"Y","m","d">>, sep |-> "-"],
       [order |-> <<"d","m","Y">>, sep |-> "/"],
       [order |-> <<"m","d","Y">>, sep |-> "/"],
       [order |-> <<"d","m","Y">>, sep |-> "-"],
       [order |-> <<"Y","m","d">>, sep |-> "/"],
       [order |-> <<"d","m","Y">>, sep |-> "."] >>

RECURSIVE try_formats(_, _)
try_formats(text, i) ==
    IF i > Len(date_formats) THEN None
    ELSE LET r == strptime(text, date_formats[i].order, date_formats[i].sep)
         IN  IF r # None THEN r ELSE try_formats(text, i + 1)

\* cells are read with dtype=str, so the datetime branch is never taken
parse_date(value) ==
    IF isna(value) THEN None
    ELSE LET text == strip(value)
         IN  IF text = <<>> THEN None ELSE try_formats(text, 1)

\* ---------------------------------------------------------------------------
\* Header row detection
\* ---------------------------------------------------------------------------
\* default max_rows of find_header_row
DefaultMaxRows == 15

Min(a, b) == IF a < b THEN a ELSE b

\* one pass of the inner loop: some cell of the row holds the keyword
row_has_anchor(row, anchor_lower) ==
    \E c \in 1..Len(row) :
        notna(row[c]) /\ Contains(normalize_header(row[c]), anchor_lower)

\* rows are indexed from 0 as in pandas; df[idx + 1] is df.iloc[idx]
RECURSIVE scan_rows(_, _, _, _)
scan_rows(df, anchor_lower, idx, limit) ==
    IF idx >= limit THEN None
    ELSE IF row_has_anchor(df[idx + 1], anchor_lower) THEN Some(idx)
         ELSE scan_rows(df, anchor_lower, idx + 1, limit)

\* variant that scans every row of the grid
find_header_row_nodepth(df, anchor_keyword, max_rows) ==
    scan_rows(df, lower(anchor_keyword), 0, Len(df))

find_header_row(df, anchor_keyword, max_rows) ==
    scan_rows(df, lower(anchor_keyword), 0, Min(max_rows, Len(df)))

\* ---------------------------------------------------------------------------
\* Two-row header merging
\* ---------------------------------------------------------------------------
Width(df) == IF df = <<>> THEN 0 ELSE Len(df[1])

\* f"Unnamed: {col_idx}"
Unnamed(col_idx) == <<"U","n","n","a","m","e","d",":"," ">> \o IntToText(col_idx)

\* the fragments tested against the normalized text of the row above
scoring_fragments ==
    { <<"n","i","v","e","l">>,
      <<"s","p","o","n","s","o","r">>,
      <<"i","m","p","a","c","t","o">>,
      <<"c","a","p","e","x">>,
      <<"r","e","p","l","i","c","a","b","l","e">>,
      <<"p","e","r","s","o","n","a","s">>,
      <<"o","b","j","e","t","i","v","o","s">>,
      <<"s","i","m","p","l","i","f","i","c","a">>,
      <<"r","e","c","u","r","s","o","s"," ","e","x","t","e","r","n","o","s">>,
      <<"t","i","e","m","p","o"," ","d","e"," ","d","e","s","a","r","r","o","l","l","o">>,
      <<"c","a","l","i","d","a","d"," ","d","e"," ","d","a","t","o","s">>,
      <<"c","o","m","p","l","e","j","a">> }

is_scoring_question(prev_header) ==
    \/ (prev_header # <<>> /\ Head(prev_header) = "¿")
    \/ Contains(prev_header, <<"¿">>)
    \/ \E f \in scoring_fragments : Contains(normalize_header(prev_header), f)

\* text of a header cell: str(val).strip() when the cell is not NaN, else ""
header_text(df, row_idx, col_idx) ==
    LET val == df[row_idx + 1][col_idx + 1]
    IN  IF notna(val) THEN strip(val) ELSE <<>>

\* variant that takes the text of the header row whenever it has one
build_merged_headers_main(df, header_row) ==
    LET prev_row_idx == IF header_row > 0 THEN header_row - 1 ELSE header_row
    IN  [col_idx \in 0..(Width(df) - 1) |->
            LET main_header == header_text(df, header_row, col_idx)
                prev_header == IF prev_row_idx # header_row
                               THEN header_text(df, prev_row_idx, col_idx)
                               ELSE <<>>
            IN  IF main_header # <<>> THEN main_header
                ELSE IF prev_header # <<>> /\ is_scoring_question(prev_header)
                     THEN prev_header
                     ELSE Unnamed(col_idx)]

\* header_row is a row index of df_raw; the result maps column index -> text
build_merged_headers(df, header_row) ==
    LET prev_row_idx == IF header_row > 0 THEN header_row - 1 ELSE header_row
    IN  [col_idx \in 0..(Width(df) - 1) |->
            LET main_header == header_text(df, header_row, col_idx)
                prev_header == IF prev_row_idx # header_row
                               THEN header_text(df, prev_row_idx, col_idx)
                               ELSE <<>>
            IN  IF prev_header # <<>> /\ is_scoring_question(prev_header)
                THEN prev_header
                ELSE IF main_header # <<>> THEN main_header
                     ELSE Unnamed(col_idx)]

\* ---------------------------------------------------------------------------
\* Data frame of the rows under the header: skiprows, ffill, dropna(how='all')
\* ---------------------------------------------------------------------------
\* read_excel(skiprows=header_row + 1): the rows after the header, labelled
\* from 0; no row left gives a frame without columns
skip_rows(df, header_row) ==
    [i \in 1..(Len(df) - (header_row + 1)) |-> df[header_row + 1 + i]]

\* variant that fills from the row directly above only, as read
RECURSIVE ffill_from_once(_, _, _)
ffill_from_once(rows, i, last) ==
    IF i > Len(rows) THEN <<>>
    ELSE LET filled == [c \in 1..Len(rows[i]) |->
                           IF notna(rows[i][c]) THEN rows[i][c] ELSE last[c]]
         IN  <<filled>> \o ffill_from_once(rows, i + 1, rows[i])

\* DataFrame.ffill: a NaN takes the last value seen above it in its column
RECURSIVE ffill_from(_, _, _)
ffill_from(rows, i, last) ==
    IF i > Len(rows) THEN <<>>
    ELSE LET filled == [c \in 1..Len(rows[i]) |->
                           IF notna(rows[i][c]) THEN rows[i][c] ELSE last[c]]
         IN  <<filled>> \o ffill_from(rows, i + 1, filled)

ffill(rows) ==
    IF rows = <<>> THEN <<>>
    ELSE ffill_from(rows, 1, [c \in 1..Len(rows[1]) |-> NaN])

\* DataFrame.dropna(how='all'): rows keep their index label
RECURSIVE dropna_all(_, _)
dropna_all(rows, i) ==
    IF i > Len(rows) THEN <<>>
    ELSE IF \A c \in 1..Len(rows[i]) : isna(rows[i][c])
         THEN dropna_all(rows, i + 1)
         ELSE <<[idx |-> i - 1, cells |-> rows[i]]>> \o dropna_all(rows, i + 1)

read_data(df, header_row) == dropna_all(ffill(skip_rows(df, header_row)), 1)

\* ---------------------------------------------------------------------------
\* Column mapping and record assembly
\* ---------------------------------------------------------------------------
\* merged_headers.get(col_idx, f"Unnamed: {col_idx}")
get_header(merged, col_idx) ==
    IF col_idx \in DOMAIN merged THEN merged[col_idx] ELSE Unnamed(col_idx)

\* the loop over range(len(df.columns)): entries in column order
RECURSIVE build_column_map(_, _, _)
build_column_map(merged, col_idx, ncols) ==
    IF col_idx >= ncols THEN <<>>
    ELSE LET text   == get_header(merged, col_idx)
             mapped == map_column_name(text)
         IN  (IF mapped # None
              THEN <<[col |-> col_idx, header |-> text, field |-> mapped[1]]>>
              ELSE <<>>)
             \o build_column_map(merged, col_idx + 1, ncols)

RECURSIVE build_unmapped(_, _, _)
build_unmapped(merged, col_idx, ncols) ==
    IF col_idx >= ncols THEN <<>>
    ELSE LET text == get_header(merged, col_idx)
         IN  (IF map_column_name(text) = None THEN <<text>> ELSE <<>>)
             \o build_unmapped(merged, col_idx + 1, ncols)

\* project[k] = v
Put(project, k, v) ==
    [x \in (DOMAIN project) \cup {k} |-> IF x = k THEN v ELSE project[x]]

\* variant that tests the presence of the key only
Truthy_haskey(project, k) == k \in DOMAIN project

\* project.get(k) is truthy: a non-empty str or a non-zero float
Truthy(project, k) ==
    /\ k \in DOMAIN project
    /\ IF project[k].kind = "str" THEN project[k].text # <<>> ELSE project[k].m # 0

EmptyProject == [x \in {} |-> StrVal(<<>>)]

\* the body of the loop over column_map.items() for one column
assign_field(project, mapping, cells) ==
    LET db_field == mapping.field
        value    == IF mapping.col < Len(cells) THEN cells[mapping.col + 1] ELSE NaN
    IN  IF db_field \in NUMERIC_FIELDS
        THEN LET num_val == clean_numeric(value)
             IN  IF num_val # None THEN Put(project, db_field, num_val[1]) ELSE project
        ELSE IF db_field \in DATE_FIELDS
        THEN LET date_val == parse_date(value)
             IN  IF date_val # None THEN Put(project, db_field, StrVal(date_val[1])) ELSE project
        ELSE IF notna(value) THEN Put(project, db_field, StrVal(strip(value))) ELSE project

RECURSIVE build_project(_, _, _, _)
build_project(project, cmap, i, cells) ==
    IF i > Len(cmap) THEN project
    ELSE build_project(assign_field(project, cmap[i], cells), cmap, i + 1, cells)

Draft == <<"D","r","a","f","t">>

\* variant without the default
with_defaults_none(project) == project

\* the defaults applied to a record that is kept
with_defaults(project) ==
    IF ~Truthy(project, "status") THEN Put(project, "status", StrVal(Draft)) ELSE project

\* ---------------------------------------------------------------------------
\* State of one call of parse_excel
\* ---------------------------------------------------------------------------
VARIABLES
    df_raw,            \* the grid read with header=None, dtype=str
    pc,                \* stage of the parse
    header_row,        \* Optional row index
    success,           \* result['success']
    result_projects,   \* result['projects']
    errors,            \* result['errors']
    metadata,          \* result['metadata']
    merged_headers,    \* column index -> header text
    df,                \* data rows after ffill and dropna, with index labels
    df_columns,        \* len(df.columns)
    column_map,        \* entries [col, header, field] in insertion order
    projects,          \* the local list of records
    project_rows,      \* index label of the row each record came from
    cursor,            \* position of the row loop in df
    num_in,            \* argument of a clean_numeric call
    num_out,           \* its result
    date_in,           \* argument of a parse_date call
    date_out,          \* its result
    date_again         \* result of parse_date on that result

vars == << df_raw, pc, header_row, success, result_projects, errors, metadata,
           merged_headers, df, df_columns, column_map, projects, project_rows,
           cursor, num_in, num_out, date_in, date_out, date_again, year_padded >>

coerce_vars == << num_in, num_out, date_in, date_out, date_again, year_padded >>

\* diagnostics
ErrNoIniciativa == [kind |-> "NoIniciativa", row |-> 0]

ErrNoHeader == [kind |-> "NoHeader", row |-> 0]

ErrFila(n) == [kind |-> "Fila", row |-> n]

kw_iniciativa == <<"i","n","i","c","i","a","t","i","v","a">>

kw_proyecto == <<"p","r","o","y","e","c","t","o">>

kw_nombre == <<"n","o","m","b","r","e">>

\* the result dictionary as constructed at the top of parse_excel
InitResult(grid) ==
    /\ df_raw = grid
    /\ header_row = None
    /\ success = FALSE
    /\ result_projects = <<>>
    /\ errors = <<>>
    /\ metadata = [header_row |-> None, total_rows |-> 0,
                   columns_mapped |-> {}, columns_unmapped |-> <<>>]
    /\ merged_headers = <<>>
    /\ df = <<>>
    /\ df_columns = 0
    /\ column_map = <<>>
    /\ projects = <<>>
    /\ project_rows = <<>>
    /\ cursor = 1

\* variant that takes the topmost row holding any of the keywords
anchor_search_topmost(grid) ==
    LET hits == { h \in { find_header_row(grid, kw, DefaultMaxRows) :
                            kw \in {kw_iniciativa, kw_proyecto, kw_nombre} } : h # None }
    IN  IF hits = {} THEN None
        ELSE CHOOSE h \in hits : \A g \in hits : h[1] <= g[1]

\* variant that falls back to row 0 when no keyword is found
anchor_search_row0(grid) ==
    LET h1 == find_header_row(grid, kw_iniciativa, DefaultMaxRows)
        h2 == find_header_row(grid, kw_proyecto, DefaultMaxRows)
        h3 == find_header_row(grid, kw_nombre, DefaultMaxRows)
    IN  IF h1 # None THEN h1
        ELSE IF h2 # None THEN h2
             ELSE IF h3 # None THEN h3 ELSE Some(0)

\* lines 392-399: the keywords tried in turn; the first miss is reported
anchor_search(grid) ==
    LET h1 == find_header_row(grid, kw_iniciativa, DefaultMaxRows)
        h2 == find_header_row(grid, kw_proyecto, DefaultMaxRows)
        h3 == find_header_row(grid, kw_nombre, DefaultMaxRows)
    IN  IF h1 # None THEN h1
        ELSE IF h2 # None THEN h2
             ELSE h3

FindAnchor ==
    /\ pc = "LocatingAnchor"
    /\ header_row' = anchor_search(df_raw)
    /\ errors' = IF find_header_row(df_raw, kw_iniciativa, DefaultMaxRows) = None
                 THEN Append(errors, ErrNoIniciativa)
                 ELSE errors
    /\ pc' = IF header_row' = None THEN "NotFound" ELSE "Found"
    /\ UNCHANGED << df_raw, success, result_projects, metadata, merged_headers, df,
                    df_columns, column_map, projects, project_rows, cursor,
                    coerce_vars >>

\* lines 401-403: no header row, the initial result is returned
FailDetection ==
    /\ pc = "NotFound"
    /\ errors' = Append(errors, ErrNoHeader)
    /\ pc' = "Failed"
    /\ UNCHANGED << df_raw, header_row, success, result_projects, metadata,
                    merged_headers, df, df_columns, column_map, projects,
                    project_rows, cursor, coerce_vars >>

\* variant that goes from the anchor straight to the column mapping
AnchorFound_skip ==
    /\ pc = "Found"
    /\ metadata' = [metadata EXCEPT !.header_row = header_row]
    /\ pc' = "MappingColumns"
    /\ UNCHANGED << df_raw, header_row, success, result_projects, errors,
                    merged_headers, df, df_columns, column_map, projects,
                    project_rows, cursor, coerce_vars >>

\* line 405
AnchorFound ==
    /\ pc = "Found"
    /\ metadata' = [metadata EXCEPT !.header_row = header_row]
    /\ pc' = "MergingHeaders"
    /\ UNCHANGED << df_raw, header_row, success, result_projects, errors,
                    merged_headers, df, df_columns, column_map, projects,
                    project_rows, cursor, coerce_vars >>

\* line 408
MergeHeaders ==
    /\ pc = "MergingHeaders"
    /\ merged_headers' = build_merged_headers(df_raw, header_row[1])
    /\ pc' = "ReadingData"
    /\ UNCHANGED << df_raw, header_row, success, result_projects, errors, metadata,
                    df, df_columns, column_map, projects, project_rows, cursor,
                    coerce_vars >>

\* lines 418-430
ReadData ==
    /\ pc = "ReadingData"
    /\ df' = read_data(df_raw, header_row[1])
    /\ df_columns' = Width(skip_rows(df_raw, header_row[1]))
    /\ metadata' = [metadata EXCEPT !.total_rows = Len(df')]
    /\ pc' = "MappingColumns"
    /\ UNCHANGED << df_raw, header_row, success, result_projects, errors,
                    merged_headers, column_map, projects, project_rows, cursor,
                    coerce_vars >>

\* lines 432-456
MapColumns ==
    /\ pc = "MappingColumns"
    /\ column_map' = build_column_map(merged_headers, 0, df_columns)
    /\ metadata' = [metadata EXCEPT
                       !.columns_mapped =
                           { <<column_map'[i].header, column_map'[i].field>> :
                                 i \in 1..Len(column_map') },
                       !.columns_unmapped = build_unmapped(merged_headers, 0, df_columns)]
    /\ projects' = <<>>
    /\ project_rows' = <<>>
    /\ cursor' = 1
    /\ pc' = "ExtractingRows"
    /\ UNCHANGED << df_raw, header_row, success, result_projects, errors,
                    merged_headers, df, df_columns, coerce_vars >>

\* lines 478-511: one iteration of the loop over df.iterrows()
ExtractRow ==
    /\ pc = "ExtractingRows"
    /\ cursor <= Len(df)
    /\ LET row     == df[cursor]
           project == build_project(EmptyProject, column_map, 1, row.cells)
       IN  IF ~Truthy(project, "projectName")
           THEN UNCHANGED << projects, project_rows >>
           ELSE /\ projects' = Append(projects, with_defaults(project))
                /\ project_rows' = Append(project_rows, row.idx)
    /\ cursor' = cursor + 1
    /\ UNCHANGED << df_raw, pc, header_row, success, result_projects, errors,
                    metadata, merged_headers, df, df_columns, column_map,
                    coerce_vars >>

\* variant whose handler gives up on the rows that are left
RowError_abort ==
    /\ pc = "ExtractingRows"
    /\ cursor <= Len(df)
    /\ errors' = Append(errors, ErrFila(df[cursor].idx + header_row[1] + 2))
    /\ cursor' = Len(df) + 1
    /\ UNCHANGED << df_raw, pc, header_row, success, result_projects, metadata,
                    merged_headers, df, df_columns, column_map, projects,
                    project_rows, coerce_vars >>

\* lines 479 and 513-514: an iteration of the row loop that raises. No
\* statement of the loop body raises on str or NaN cells; the exception is
\* one the interpreter can raise anywhere (MemoryError is an Exception). The
\* record under construction is dropped and the loop goes on.
RowError ==
    /\ pc = "ExtractingRows"
    /\ cursor <= Len(df)
    /\ errors' = Append(errors, ErrFila(df[cursor].idx + header_row[1] + 2))
    /\ cursor' = cursor + 1
    /\ UNCHANGED << df_raw, pc, header_row, success, result_projects, metadata,
                    merged_headers, df, df_columns, column_map, projects,
                    project_rows, coerce_vars >>

\* lines 516-517 and the return
Finish ==
    /\ pc = "ExtractingRows"
    /\ cursor > Len(df)
    /\ result_projects' = projects
    /\ success' = TRUE
    /\ pc' = "Done"
    /\ UNCHANGED << df_raw, header_row, errors, metadata, merged_headers, df,
                    df_columns, column_map, projects, project_rows, cursor,
                    coerce_vars >>

Next ==
    \/ FindAnchor
    \/ FailDetection
    \/ AnchorFound
    \/ MergeHeaders
    \/ ReadData
    \/ MapColumns
    \/ ExtractRow
    \/ Finish

\* the parse with row iterations that may raise
NextFault ==
    \/ Next
    \/ RowError

\* the call clean_numeric(num_in)
CleanNumeric ==
    /\ pc = "Coercing"
    /\ num_out' = clean_numeric(num_in)
    /\ pc' = "Coerced"
    /\ UNCHANGED << df_raw, header_row, success, result_projects, errors, metadata,
                    merged_headers, df, df_columns, column_map, projects,
                    project_rows, cursor, num_in, date_in, date_out,
                    date_again, year_padded >>

NextNumeric == CleanNumeric

\* the call parse_date(date_in)
ParseDate ==
    /\ pc = "DateIn"
    /\ date_out' = parse_date(date_in)
    /\ pc' = "DateOut"
    /\ UNCHANGED << df_raw, header_row, success, result_projects, errors, metadata,
                    merged_headers, df, df_columns, column_map, projects,
                    project_rows, cursor, num_in, num_out, date_in, date_again,
                    year_padded >>

\* parse_date applied to the date it returned
ReparseDate ==
    /\ pc = "DateOut"
    /\ date_out # None
    /\ date_again' = parse_date(date_out[1])
    /\ pc' = "DateAgain"
    /\ UNCHANGED << df_raw, header_row, success, result_projects, errors, metadata,
                    merged_headers, df, df_columns, column_map, projects,
                    project_rows, cursor, num_in, num_out, date_in, date_out,
                    year_padded >>

NextDate ==
    \/ ParseDate
    \/ ReparseDate

\* ---------------------------------------------------------------------------
\* Input grids
\* ---------------------------------------------------------------------------
T_Iniciativa == <<"I","n","i","c","i","a","t","i","v","a">>

T_TipoIniciativa == <<"T","i","p","o"," ","d","e","\n","I","n","i","c","i","a","t","i","v","a">>

T_PROYECTO == <<"P","R","O","Y","E","C","T","O">>

T_Nombre == <<" ","N","o","m","b","r","e"," ">>

T_Total == <<"T","o","t","a","l">>

T_Capex == <<"¿","R","e","q","u","i","e","r","e"," ","C","A","P","E","X","/","I","n","v","e","r","s","i","ó","n","?">>

T_FechaInicio == <<"F","e","c","h","a"," ","i","n","i","c","i","o">>

T_Ranking == <<"R","a","n","k","i","n","g">>

T_TotalEsfuerzo == <<"T","o","t","a","l","\n"," ","E","S","F","U","E","R","Z","O"," ">>

T_EsfuerzoEstimado == <<"E","s","f","u","e","r","z","o"," ","e","s","t","i","m","a","d","o">>

T_Nivel == <<" ","N","I","V","E","L","\n">>

T_One == <<"1">>

T_Alpha == <<"A","l","p","h","a">>

T_X == <<"X">>

T_Y == <<"Y">>

T_Blank == <<" ">>

T_Over100 == <<">"," ","1","0","0"," ","K","U","S","D">>

T_Entre20y100 == <<"E","n","t","r","e"," ","2","0"," ","y"," ","1","0","0">>

T_NoRequiere == <<"N","o"," ","r","e","q","u","i","e","r","e">>

T_Pendiente == <<"p","e","n","d","i","e","n","t","e">>

T_DMY == <<"1","5","/","0","3","/","2","0","2","4">>

T_ISO == <<"2","0","2","4","-","0","3","-","1","5">>

T_DashDot == <<"-",".">>

T_Money == <<"$"," ","3",".","5","0">>

BlankRow(n) == [c \in 1..n |-> NaN]

\* --- grids for anchor detection: blank rows on top of a block of free cells --
AnchorCells == { NaN, T_Iniciativa, T_PROYECTO, T_Nombre }

AnchorBlocks ==
    UNION { [1..k -> [1..AnchorWidth -> AnchorCells]] : k \in 0..MaxHead }

PadGrid(pad, block) ==
    [i \in 1..(pad + Len(block)) |->
        IF i <= pad THEN BlankRow(AnchorWidth) ELSE block[i - pad]]

AnchorGrids == { PadGrid(pad, block) : pad \in 0..MaxPad, block \in AnchorBlocks }

\* --- grids for record assembly: header rows and typed data columns ----------
\* head: the rows down to the anchor row; cells[c]: the values of column c
Layouts ==
    { [head  |-> << <<T_Iniciativa, T_TipoIniciativa>> >>,
       cells |-> << {NaN, T_Alpha, T_Blank}, {NaN, T_X, T_Y, T_Blank} >>],
      [head  |-> << <<T_Iniciativa, T_Iniciativa>> >>,
       cells |-> << {NaN, T_Alpha}, {NaN, T_X, T_Blank} >>],
      [head  |-> << <<NaN, T_Capex>>, <<T_Iniciativa, T_Total>> >>,
       cells |-> << {NaN, T_Alpha}, {NaN, T_Over100, T_Entre20y100, T_NoRequiere, T_Pendiente} >>],
      [head  |-> << <<T_Iniciativa, T_FechaInicio>> >>,
       cells |-> << {T_Alpha}, {NaN, T_DMY, T_ISO} >>],
      [head  |-> << <<T_Iniciativa, T_Ranking>> >>,
       cells |-> << {T_Alpha}, {NaN, T_DashDot, T_Money} >>],
      [head  |-> << <<T_Iniciativa, T_TipoIniciativa, T_TipoIniciativa>> >>,
       cells |-> << {T_Alpha}, {NaN, T_X}, {NaN, T_Y, T_Blank} >>],
      [head  |-> << <<T_Iniciativa, T_TotalEsfuerzo, T_EsfuerzoEstimado, T_Total>> >>,
       cells |-> << {T_Alpha}, {NaN, T_One}, {NaN, T_One}, {NaN, T_One} >>],
      [head  |-> << <<T_Total, NaN>> >>,
       cells |-> << {NaN, T_Alpha}, {NaN} >>] }

DataRows(layout) ==
    { row \in [1..Len(layout.cells) -> UNION { layout.cells[c] : c \in 1..Len(layout.cells) }] :
        \A c \in 1..Len(layout.cells) : row[c] \in layout.cells[c] }

LayoutGrids ==
    UNION { { layout.head \o data : data \in UNION { [1..k -> DataRows(layout)] : k \in 0..MaxData } } :
            layout \in Layouts }

\* --- grids for header merging: rows above a candidate header row --------------
AboveCells == { NaN, T_Capex, T_Nivel, T_Total, T_Blank }

HeadCells == { NaN, T_Iniciativa, T_Total, T_Blank }

MergeGrids ==
    { above \o <<head>> \o data :
        above \in UNION { [1..k -> [1..2 -> AboveCells]] : k \in 0..MaxAbove },
        head \in [1..2 -> HeadCells],
        data \in UNION { [1..k -> {<<T_Alpha, T_X>>}] : k \in 0..MaxMergeData } }

\* --- grids for the stages of a parse: with and without an anchor row ---------
LiveHeads ==
    { <<T_Iniciativa, T_TipoIniciativa>>, <<T_PROYECTO, T_Total>>, <<T_Total, T_Capex>> }

LiveRows == { <<T_Alpha, T_X>>, <<T_Alpha, NaN>>, <<NaN, T_X>>, <<NaN, NaN>> }

LiveGrids ==
    { <<head>> \o data :
        head \in LiveHeads,
        data \in UNION { [1..k -> LiveRows] : k \in 0..MaxLiveData } }

\* --- arguments of clean_numeric ---------------------------------------------
NumericChars == { "0", "1", ".", "-", "$", " " }

NumericInputs == {NaN} \cup UNION { [1..k -> NumericChars] : k \in 0..MaxNumLen }

\* --- arguments of parse_date: three parts joined by one separator ------------
DateParts ==
    { <<"1","5">>, <<"0","3">>, <<"0","2">>, <<"3","1">>,
      <<"2","0","2","4">>, <<"0","9","9","9">> }

DateSeparators == { "-", "/", "." }

DateInputs ==
    {NaN, T_Blank}
        \cup { a \o <<sep>> \o b \o <<sep>> \o c :
                 a \in DateParts, b \in DateParts, c \in DateParts, sep \in DateSeparators }

\* ---------------------------------------------------------------------------
\* Specifications
\* ---------------------------------------------------------------------------
Init ==
    /\ \E grid \in LayoutGrids : InitResult(grid)
    /\ pc = "LocatingAnchor"
    /\ num_in = NaN
    /\ num_out = None
    /\ date_in = NaN
    /\ date_out = None
    /\ date_again = None
    /\ year_padded \in BOOLEAN

Spec == Init /\ [][Next]_vars

InitAnchor ==
    /\ \E grid \in AnchorGrids : InitResult(grid)
    /\ pc = "LocatingAnchor"
    /\ num_in = NaN
    /\ num_out = None
    /\ date_in = NaN
    /\ date_out = None
    /\ date_again = None
    /\ year_padded \in BOOLEAN

SpecAnchor == InitAnchor /\ [][Next]_vars

InitNumeric ==
    /\ InitResult(<<>>)
    /\ pc = "Coercing"
    /\ num_in \in NumericInputs
    /\ num_out = None
    /\ date_in = NaN
    /\ date_out = None
    /\ date_again = None
    /\ year_padded \in BOOLEAN

SpecNumeric == InitNumeric /\ [][NextNumeric]_vars

\* ---------------------------------------------------------------------------
\* Anchor detection
\* ---------------------------------------------------------------------------
AnchorKeywords == << kw_iniciativa, kw_proyecto, kw_nombre >>

\* the cells of the input grids that hold each keyword, as written in the grid
CellsHolding == << {T_Iniciativa, T_TipoIniciativa}, {T_PROYECTO}, {T_Nombre} >>

ScanDepth(grid) == IF Len(grid) < DefaultMaxRows THEN Len(grid) ELSE DefaultMaxRows

\* row indices within the scan depth with a cell whose normalized text holds kw
MatchingRows(grid, kw) ==
    { i \in 0..(ScanDepth(grid) - 1) :
        \E c \in 1..Len(grid[i + 1]) :
            /\ grid[i + 1][c] # NaN
            /\ Contains(normalize_header(grid[i + 1][c]), kw) }

\* the same rows, told by the cells as they are written (upper case, padded)
HoldingRows(grid, k) ==
    { i \in 0..(ScanDepth(grid) - 1) :
        \E c \in 1..Len(grid[i + 1]) : grid[i + 1][c] \in CellsHolding[k] }

Least(S) == CHOOSE x \in S : \A y \in S : x <= y

\* C1: for every keyword, when some cell of a row within the scan depth holds
\* the keyword after normalization, find_header_row returns the least such row
\* index, whatever the column; the index returned is never at or beyond the
\* scan depth.
C1_FirstMatchingRow ==
    \A k \in 1..Len(AnchorKeywords) :
        LET r == find_header_row(df_raw, AnchorKeywords[k], DefaultMaxRows)
            M == MatchingRows(df_raw, AnchorKeywords[k])
        IN  /\ M = HoldingRows(df_raw, k)
            /\ M # {} => r = Some(Least(M))
            /\ r # None => r[1] < DefaultMaxRows /\ r[1] < Len(df_raw)

\* the anchor is the last row inside the scan depth, its keyword sits in the
\* second column only, and the keyword occurs again below the scan depth
C1_Witness ==
    /\ pc = "Found"
    /\ header_row = Some(DefaultMaxRows - 1)
    /\ Len(df_raw) > DefaultMaxRows
    /\ df_raw[DefaultMaxRows][1] = NaN
    /\ df_raw[DefaultMaxRows][2] = T_PROYECTO
    /\ df_raw[DefaultMaxRows + 1][1] = T_PROYECTO

\* the row parse_excel must anchor on: keywords in priority order
ExpectedAnchor(grid) ==
    IF MatchingRows(grid, kw_iniciativa) # {} THEN Some(Least(MatchingRows(grid, kw_iniciativa)))
    ELSE IF MatchingRows(grid, kw_proyecto) # {} THEN Some(Least(MatchingRows(grid, kw_proyecto)))
    ELSE IF MatchingRows(grid, kw_nombre) # {} THEN Some(Least(MatchingRows(grid, kw_nombre)))
    ELSE None

\* C2: the anchor row of a parse is the first row holding the highest-priority
\* keyword ("iniciativa", then "proyecto", then "nombre") found within the scan
\* depth; a row of a lower-priority keyword is taken only when no row holds a
\* higher-priority one, also when it lies above.
C2_KeywordPriority ==
    pc # "LocatingAnchor" => header_row = ExpectedAnchor(df_raw)

\* "proyecto" in row 0, "iniciativa" in row 1: the anchor is row 1
C2_Witness ==
    /\ pc = "Found"
    /\ Len(df_raw) = 2
    /\ df_raw[1] = <<T_PROYECTO, T_Nombre>>
    /\ df_raw[2] = <<NaN, T_Iniciativa>>
    /\ header_row = Some(1)

NoAnchorInDepth(grid) ==
    \A k \in 1..Len(AnchorKeywords) : MatchingRows(grid, AnchorKeywords[k]) = {}

\* C3: when no keyword is found within the scan depth (a grid without rows, or
\* a keyword only at row 15 or below), the parse ends in Failed with
\* success false, no record, at least one diagnostic and no anchor row in the
\* metadata; it never goes on to the later stages.
C3_DetectionFailure ==
    NoAnchorInDepth(df_raw) =>
        /\ pc \in {"LocatingAnchor", "NotFound", "Failed"}
        /\ success = FALSE
        /\ result_projects = <<>>
        /\ metadata.header_row = None
        /\ pc = "Failed" => Len(errors) >= 1 /\ errors[Len(errors)] = ErrNoHeader

\* the only keyword of the grid is at row index 15
C3_Witness ==
    /\ pc = "Failed"
    /\ Len(df_raw) = DefaultMaxRows + 1
    /\ df_raw[DefaultMaxRows + 1] = <<T_Iniciativa, NaN>>
    /\ success = FALSE
    /\ Len(errors) = 2

\* ---------------------------------------------------------------------------
\* Record assembly
\* ---------------------------------------------------------------------------
Range(f) == { f[x] : x \in DOMAIN f }

Mapped == pc \in {"ExtractingRows", "Done"}

\* number of rows of the grid under the anchor row
NData == Len(df_raw) - header_row[1] - 1

\* row i (from 0) under the anchor row, as read from the grid
DataRow(i) == df_raw[header_row[1] + 2 + i]

\* columns (from 0) that the parse mapped to a field
FieldCols(f) == { m.col : m \in { x \in Range(column_map) : x.field = f } }

\* the filled cells of data row i in the frame, when the row was kept
InFrame(i) == \E n \in 1..Len(df) : df[n].idx = i

FrameCells(i) == (CHOOSE e \in Range(df) : e.idx = i).cells

RecordsOf(i) == { k \in 1..Len(projects) : project_rows[k] = i }

NonEmptyText(project, f) ==
    /\ f \in DOMAIN project
    /\ project[f].kind = "str"
    /\ project[f].text # <<>>

\* C4: every record of the result carries a non-empty projectName and a
\* non-empty status, and the status is "Draft" whenever the (forward-filled)
\* row has no value in a column mapped to status.
C4_NameAndStatus ==
    /\ \A p \in Range(projects) \cup Range(result_projects) :
          NonEmptyText(p, "projectName") /\ NonEmptyText(p, "status")
    /\ \A k \in 1..Len(projects) :
          (\A c \in FieldCols("status") : FrameCells(project_rows[k])[c + 1] = NaN)
              => projects[k]["status"].text = Draft
    /\ pc = "Done" => result_projects = projects

\* two records returned: one with the status of its row, one with the default
\* because its status cell holds white space only
C4_Witness ==
    /\ pc = "Done"
    /\ Len(result_projects) = 2
    /\ result_projects[1]["status"].text = T_X
    /\ result_projects[2]["status"].text = Draft
    /\ DataRow(1) = <<T_Alpha, T_Blank>>

\* the entry of the lowest-indexed column among those mapped to its field
IsFirstOfField(m) == \A x \in Range(column_map) : x.field = m.field => m.col <= x.col

\* C5: the column mapping gives each column at most one field and each field
\* at most one column: of the columns whose labels map to the same field only
\* the lowest-indexed one is kept and feeds the record.
C5_FirstColumnWins ==
    Mapped =>
        /\ \A i, j \in 1..Len(column_map) :
              column_map[i].col = column_map[j].col => i = j
        /\ \A i, j \in 1..Len(column_map) :
              column_map[i].field = column_map[j].field => i = j
        /\ \A k \in 1..Len(projects) :
              projects[k] = with_defaults(build_project(EmptyProject,
                                SelectSeq(column_map, IsFirstOfField), 1,
                                FrameCells(project_rows[k])))

Greatest(S) == CHOOSE x \in S : \A y \in S : x >= y

\* the value forward-fill must leave in column c (from 1) of data row i
ExpectedFill(i, c) ==
    LET above == { j \in 0..i : DataRow(j)[c] # NaN }
    IN  IF above = {} THEN NaN ELSE DataRow(Greatest(above))[c]

\* C6: after forward-fill every cell of a data row holds its own value when it
\* is not blank, else the value of the nearest non-blank cell above it in its
\* column among the data rows, else it stays blank (rows left wholly blank are
\* dropped from the frame).
C6_ForwardFill ==
    pc \in {"MappingColumns", "ExtractingRows", "Done"} =>
        \A i \in 0..(NData - 1) :
            LET expected == [c \in 1..Len(DataRow(i)) |-> ExpectedFill(i, c)]
            IN  IF \E c \in 1..Len(expected) : expected[c] # NaN
                THEN InFrame(i) /\ FrameCells(i) = expected
                ELSE ~InFrame(i)

\* rows ("Alpha", blank), (blank, "X"), (blank, "Y"): "Alpha" in every row
C6_Witness ==
    /\ pc = "MappingColumns"
    /\ NData = 3
    /\ DataRow(0) = <<T_Alpha, NaN>>
    /\ DataRow(1) = <<NaN, T_X>>
    /\ DataRow(2) = <<NaN, T_Y>>
    /\ Len(df) = 3
    /\ \A n \in 1..3 : df[n].cells[1] = T_Alpha
    /\ df[3].cells[2] = T_Y

\* data row i has a name in column p (from 0) and no other cell
OnlyName(i, p) ==
    /\ DataRow(i)[p + 1] # NaN
    /\ strip(DataRow(i)[p + 1]) # <<>>
    /\ \A c \in 1..Len(DataRow(i)) : c # p + 1 => DataRow(i)[c] = NaN

OneDraftRecord(i) ==
    /\ Cardinality(RecordsOf(i)) = 1
    /\ \A k \in RecordsOf(i) :
          "status" \in DOMAIN projects[k] /\ projects[k]["status"] = StrVal(Draft)

\* C7 as stated: a data row with a name in the projectName column and every
\* other cell blank yields exactly one record, with status "Draft", wherever
\* it sits among the data rows.
C7_NameOnlyRowAnywhere ==
    pc = "Done" =>
        \A i \in 0..(NData - 1) : \A p \in FieldCols("projectName") :
            OnlyName(i, p) => OneDraftRecord(i)

\* no data row above row i has a value in a column, other than p, that is
\* mapped to status or projectName
NothingToInherit(i, p) ==
    \A j \in 0..(i - 1) :
        \A c \in (FieldCols("status") \cup FieldCols("projectName")) \ {p} :
            DataRow(j)[c + 1] = NaN

\* C7 amended: such a row yields exactly one record with status "Draft"
\* provided no data row above it has a value in another column mapped to
\* status or projectName.
C7_NameOnlyRow ==
    pc = "Done" =>
        \A i \in 0..(NData - 1) : \A p \in FieldCols("projectName") :
            (OnlyName(i, p) /\ NothingToInherit(i, p)) => OneDraftRecord(i)

\* the name-only row is the third data row, under two rows with records
C7_Witness ==
    /\ pc = "Done"
    /\ NData = 3
    /\ FieldCols("projectName") = {0}
    /\ FieldCols("status") = {1}
    /\ OnlyName(2, 0)
    /\ NothingToInherit(2, 0)
    /\ DataRow(0)[1] # NaN
    /\ Len(projects) = 3
    /\ project_rows[3] = 2
    /\ projects[3]["status"] = StrVal(Draft)

\* the record assembled from the filled cells of a row
Assembled(cells) == build_project(EmptyProject, column_map, 1, cells)

\* C8: every data row whose assembled record has no non-empty projectName is
\* left out of the records and has a diagnostic in the result.
C8_RejectedRowDiagnosed ==
    pc = "Done" =>
        \A n \in 1..Len(df) :
            ~NonEmptyText(Assembled(df[n].cells), "projectName") =>
                /\ RecordsOf(df[n].idx) = {}
                /\ ErrFila(df[n].idx + header_row[1] + 2) \in Range(errors)

\* the tier the rule list gives the texts of the specification
CapexExpected ==
    { <<T_Over100, "HIGH_COST">>, <<T_Entre20y100, "MEDIUM_COST">>,
      <<T_NoRequiere, "ZERO_COST">> }

\* C9: the value stored for capexTier is the tier of the cell text:
\* "> 100 KUSD" HIGH_COST, "Entre 20 y 100" MEDIUM_COST, "No requiere"
\* ZERO_COST, and "pendiente" leaves the field out.
C9_CapexTier ==
    \A k \in 1..Len(projects) : \A c \in FieldCols("capexTier") :
        LET cell == FrameCells(project_rows[k])[c + 1]
        IN  /\ \A e \in CapexExpected :
                  cell = e[1] =>
                      /\ "capexTier" \in DOMAIN projects[k]
                      /\ projects[k]["capexTier"] = [kind |-> "enum", name |-> e[2]]
            /\ cell = T_Pendiente => "capexTier" \notin DOMAIN projects[k]

\* ---------------------------------------------------------------------------
\* Numeric coercion
\* ---------------------------------------------------------------------------
DigitChars == {"0", "1", "2", "3", "4", "5", "6", "7", "8", "9"}

HasNoDigit(value) == value = NaN \/ \A i \in 1..Len(value) : value[i] \notin DigitChars

\* C10: numeric coercion of an input without any digit (its cleaned form is
\* empty or made of '.' and '-' only) yields absent, never zero or any other
\* number; every call returns absent or a float.
C10_NoDigitNoNumber ==
    pc = "Coerced" =>
        /\ num_out = None \/ (Len(num_out) = 1 /\ num_out[1].kind = "float")
        /\ HasNoDigit(num_in) => num_out = None

\* an input of punctuation that is none of ".", "-", "-."
C10_Witness ==
    /\ pc = "Coerced"
    /\ num_in = <<"$", ".", "-", ".">>
    /\ num_out = None

InitMerge ==
    /\ \E grid \in MergeGrids : InitResult(grid)
    /\ pc = "LocatingAnchor"
    /\ num_in = NaN
    /\ num_out = None
    /\ date_in = NaN
    /\ date_out = None
    /\ date_again = None
    /\ year_padded \in BOOLEAN

SpecMerge == InitMerge /\ [][Next]_vars

InitLive ==
    /\ \E grid \in LiveGrids : InitResult(grid)
    /\ pc = "LocatingAnchor"
    /\ num_in = NaN
    /\ num_out = None
    /\ date_in = NaN
    /\ date_out = None
    /\ date_again = None
    /\ year_padded \in BOOLEAN

\* parse_excel is one synchronous call: it keeps running until it returns
SpecLive == InitLive /\ [][Next]_vars /\ WF_vars(Next)

SpecFault == Init /\ [][NextFault]_vars

InitDate ==
    /\ InitResult(<<>>)
    /\ pc = "DateIn"
    /\ num_in = NaN
    /\ num_out = None
    /\ date_in \in DateInputs
    /\ date_out = None
    /\ date_again = None
    /\ year_padded \in BOOLEAN

SpecDate == InitDate /\ [][NextDate]_vars

\* ---------------------------------------------------------------------------
\* Date coercion
\* ---------------------------------------------------------------------------
\* a text of the shape dddd-dd-dd
IsIsoText(t) ==
    /\ Len(t) = 10
    /\ t[5] = "-" /\ t[8] = "-"
    /\ \A i \in {1, 2, 3, 4, 6, 7, 9, 10} : t[i] \in DigitChars

\* C11: date coercion returns the first successful parse as an ISO calendar
\* date: "15/03/2024" and "2024-03-15" both give 2024-03-15, day/month/year is
\* tried before month/day/year, and coercing a returned date again returns
\* that same date.
C11_DateIdempotent ==
    /\ pc # "DateIn" =>
          /\ date_in = T_DMY => date_out = Some(T_ISO)
          /\ date_in = T_ISO => date_out = Some(T_ISO)
          /\ date_in = <<"0","2","/","0","3","/","2","0","2","4">>
                => date_out = Some(<<"2","0","2","4","-","0","3","-","0","2">>)
          /\ date_out # None => IsIsoText(date_out[1])
    /\ pc = "DateAgain" => date_again = date_out

\* ---------------------------------------------------------------------------
\* Errors inside the row loop
\* ---------------------------------------------------------------------------
\* the spreadsheet row number (from 1) of data row i (from 0)
SheetRow(i) == header_row[1] + i + 2

Count(seq, x) == Cardinality({ n \in 1..Len(seq) : seq[n] = x })

\* C12: an error in one row does not abort the pass: the row gives no record
\* and one diagnostic with its spreadsheet row number (anchor index + data-row
\* index + 2); every other row of the frame is processed as usual, records of
\* earlier rows are kept, and success is true at the end.
C12_RowErrorIsolated ==
    /\ \A k \in 1..Len(projects) : Count(errors, ErrFila(SheetRow(project_rows[k]))) = 0
    /\ \A n \in 1..Len(errors) :
          errors[n].kind = "Fila" =>
              /\ Count(errors, errors[n]) = 1
              /\ \E j \in 1..Len(df) : errors[n].row = SheetRow(df[j].idx)
    /\ pc = "Done" =>
          /\ success = TRUE
          /\ result_projects = projects
          /\ \A n \in 1..Len(df) :
                Count(errors, ErrFila(SheetRow(df[n].idx))) = 0 =>
                    (RecordsOf(df[n].idx) # {}
                        <=> NonEmptyText(Assembled(df[n].cells), "projectName"))

\* the second of three rows raised under a header in row 1: diagnostic for
\* sheet row 4, records from the rows before and after it
C12_Witness ==
    /\ pc = "Done"
    /\ header_row = Some(1)
    /\ Len(df) = 3
    /\ errors = <<ErrFila(4)>>
    /\ project_rows = <<0, 2>>
    /\ success = TRUE

\* ---------------------------------------------------------------------------
\* Exact column mapping
\* ---------------------------------------------------------------------------
Keys == { p[1] : p \in EXACT_COLUMN_MAPPINGS }

FieldOfKey(key) == (CHOOSE p \in EXACT_COLUMN_MAPPINGS : p[1] = key)[2]

MappedCols == { m.col : m \in Range(column_map) }

EntryOf(c) == CHOOSE m \in Range(column_map) : m.col = c

\* C13: a column is mapped exactly when the normalized form of its merged
\* label equals a key of the table, and then to that key's field; a label that
\* only contains a key ("Esfuerzo estimado") or is contained in one ("Total")
\* is listed as unmapped, gives the records no field and does not fail the
\* parse, while "Total\n ESFUERZO " is matched by its own key.
C13_ExactLookup ==
    Mapped =>
        /\ \A c \in 0..(df_columns - 1) :
              LET normalized == normalize_header(merged_headers[c])
              IN  /\ c \in MappedCols <=> normalized \in Keys
                  /\ c \in MappedCols => EntryOf(c).field = FieldOfKey(normalized)
                  /\ c \notin MappedCols =>
                        \E n \in 1..Len(metadata.columns_unmapped) :
                            metadata.columns_unmapped[n] = merged_headers[c]
        /\ \A c \in 0..(df_columns - 1) :
              /\ merged_headers[c] = strip(T_TotalEsfuerzo)
                    => c \in MappedCols /\ EntryOf(c).field = "totalEsfuerzo"
              /\ merged_headers[c] \in {T_EsfuerzoEstimado, T_Total} => c \notin MappedCols
        /\ \A k \in 1..Len(projects) :
              DOMAIN projects[k] \subseteq { m.field : m \in Range(column_map) } \cup {"status"}
        /\ pc = "Done" => success = TRUE

\* labels "Iniciativa", "Total\n ESFUERZO ", "Esfuerzo estimado", "Total" with a
\* 1 in each of the last three columns: one numeric field in the record
C13_Witness ==
    /\ pc = "Done"
    /\ df_columns = 4
    /\ MappedCols = {0, 1}
    /\ metadata.columns_unmapped = <<T_EsfuerzoEstimado, T_Total>>
    /\ Len(df) = 1
    /\ df[1].cells = <<T_Alpha, T_One, T_One, T_One>>
    /\ DOMAIN result_projects[1] = {"projectName", "totalEsfuerzo", "status"}
    /\ success = TRUE

\* ---------------------------------------------------------------------------
\* Diagnostics
\* ---------------------------------------------------------------------------
\* C14: every diagnostic stands for a skipped or errored row or for a failed
\* detection: a parse that ends in Done, whatever keyword gave the anchor, and
\* in which every row of the frame gave a record returns no diagnostic.
C14_DiagnosticsOnlyForRows ==
    (pc = "Done" /\ \A n \in 1..Len(df) : RecordsOf(df[n].idx) # {})
        => errors = <<>>

\* ---------------------------------------------------------------------------
\* Header merging
\* ---------------------------------------------------------------------------
Merged == pc \in {"ReadingData", "MappingColumns", "ExtractingRows", "Done"}

\* the cells of the input grids that read as scoring questions: one holds a
\* '¿', the other the fragment "nivel" in upper case
ScoringCells == { T_Capex, T_Nivel }

BlankCells == { NaN, T_Blank }

Placeholder(c) == <<"U","n","n","a","m","e","d",":"," ">> \o <<Digits[c + 1]>>

\* C15: the merged label of a column is the (trimmed) text of the row above
\* the anchor when that text is not blank and reads as a scoring question,
\* else the (trimmed) text of the anchor row when not blank, else a placeholder
\* with the column index; with the anchor in row 0 there is no row above.
C15_MergedLabel ==
    Merged =>
        /\ DOMAIN merged_headers = 0..(Width(df_raw) - 1)
        /\ \A c \in DOMAIN merged_headers :
              LET h     == header_row[1]
                  main  == df_raw[h + 1][c + 1]
                  above == IF h > 0 THEN df_raw[h][c + 1] ELSE NaN
              IN  merged_headers[c] =
                      IF above \in ScoringCells THEN strip(above)
                      ELSE IF main \notin BlankCells THEN strip(main)
                           ELSE Placeholder(c)

\* anchor in row 1; column 0 takes " NIVEL\n" from the row above, column 1 has
\* a non-scoring text above and a blank header cell and gets the placeholder
C15_Witness ==
    /\ pc = "ReadingData"
    /\ header_row = Some(1)
    /\ df_raw[1] = <<T_Nivel, T_Total>>
    /\ df_raw[2] = <<T_Iniciativa, T_Blank>>
    /\ merged_headers[0] = <<"N","I","V","E","L">>
    /\ merged_headers[1] = <<"U","n","n","a","m","e","d",":"," ","1">>

\* ---------------------------------------------------------------------------
\* Blank rows
\* ---------------------------------------------------------------------------
\* C16: a data row that is blank in every column of the grid yields no record,
\* whatever rows precede it.
C16_BlankRowNoRecord ==
    pc = "Done" =>
        \A i \in 0..(NData - 1) :
            (\A c \in 1..Len(DataRow(i)) : DataRow(i)[c] = NaN) => RecordsOf(i) = {}

\* ---------------------------------------------------------------------------
\* Stages of a parse
\* ---------------------------------------------------------------------------
\* reading the data frame lies between header merging and column mapping: the
\* merging is over and the mapping has not run
Stage(p) == IF p = "ReadingData" THEN "MappingColumns" ELSE p

StageSteps ==
    { <<"LocatingAnchor", "Found">>, <<"LocatingAnchor", "NotFound">>,
      <<"NotFound", "Failed">>,
      <<"Found", "MergingHeaders">>,
      <<"MergingHeaders", "MappingColumns">>,
      <<"MappingColumns", "MappingColumns">>,
      <<"MappingColumns", "ExtractingRows">>,
      <<"ExtractingRows", "ExtractingRows">>,
      <<"ExtractingRows", "Done">> }

Terminal == {"Failed", "Done"}

\* a step of the parse: never from a terminal stage, along the stage order,
\* merging only in MergingHeaders, mapping only in MappingColumns, each leaving
\* its stage as it runs, and rows extracted only in ExtractingRows
StageStep ==
    /\ pc \notin Terminal
    /\ <<Stage(pc), Stage(pc')>> \in StageSteps
    /\ merged_headers' # merged_headers => pc = "MergingHeaders"
    /\ pc = "MergingHeaders" => pc' # "MergingHeaders"
    /\ column_map' # column_map => pc = "MappingColumns"
    /\ pc = "MappingColumns" => pc' = "ExtractingRows"
    /\ (projects' # projects \/ cursor' # cursor) =>
          pc \in {"MappingColumns", "ExtractingRows"}
    /\ projects' # projects => pc = "ExtractingRows"

\* C17: a parse goes LocatingAnchor, then NotFound and Failed, or Found,
\* MergingHeaders, MappingColumns, ExtractingRows and Done; merging and
\* mapping each run once, before any row is extracted; the parse always ends
\* in Failed (success false, exactly when no anchor is located) or in Done
\* (success true), and nothing runs after that.
C17_StageOrder ==
    /\ [][StageStep]_vars
    /\ [](pc = "Failed" => (success = FALSE /\ NoAnchorInDepth(df_raw)))
    /\ [](pc = "Done" => (success = TRUE /\ ~NoAnchorInDepth(df_raw)))
    /\ [](success = TRUE => pc = "Done")
    /\ <>(pc \in Terminal)

\* a parse that ended in Done without any record although it had a data row
C17_Witness ==
    /\ pc = "Done"
    /\ success = TRUE
    /\ result_projects = <<>>
    /\ Len(df) >= 1
    /\ cursor = Len(df) + 1
====
